---------------------------- MODULE Spec2Model ----------------------------
(***************************************************************************)
(* Model of the auth gRPC service: the request validators                  *)
(* (grpc/pkg/user_v1), the service handlers that call them, the           *)
(* repository that builds and executes the SQL statements                  *)
(* (internal/repository/auth) and the auth table of the migration.         *)
(*                                                                         *)
(* Strings are sequences of characters, so that strings.TrimSpace is       *)
(* computed and not assumed.  The query builder is modelled as the         *)
(* immutable value it is: every builder method returns a new builder and   *)
(* leaves its receiver alone.  The database is the table `auth`, its       *)
(* serial sequence and its set of columns; an execution may also fail for  *)
(* reasons outside the program (dbOk = FALSE).                             *)
(***************************************************************************)
EXTENDS Integers, Sequences, FiniteSets, TLC

VARIABLES
    auth,      \* the rows of table auth: a function from the ids present to rows
    authSeq,   \* the next value of the serial sequence behind auth.id
    clock,     \* the current time (time.Now() of the service and now() of the database)
    columns,   \* the columns the deployed auth table has
    call,      \* the RPC in flight: its name, request, status code, response and statements
    given,     \* history: for each row, the request that created it, created_at right
               \* after CreateUser, and whether an UpdateUser has changed the row since
    pending    \* for each concurrent call in progress, the request that has passed
               \* validation and whose statement has not been executed yet

vars == <<auth, authSeq, clock, columns, call, given, pending>>

-----------------------------------------------------------------------------
(* Bounds of the model *)

MaxId == 2      \* rows ever inserted
MaxTime == 1    \* the clock runs over 0..MaxTime
MaxIdGrpcServer == 1   \* rows ever inserted through grpc/grpc_server/main.go
NumClients == 2        \* calls that can be in progress at the same time

-----------------------------------------------------------------------------
(* Values *)

UserRole_UNKNOWN == 0
UserRole_USER == 1
UserRole_ADMIN == 2
UserRoles == {UserRole_UNKNOWN, UserRole_USER, UserRole_ADMIN}

OK == "OK"
InvalidArgument == "InvalidArgument"
Internal == "Internal"

\* sql.NullTime
NullTime == [Valid |-> FALSE, Time |-> 0]
ValidTime(t) == [Valid |-> TRUE, Time |-> t]

\* *wrapperspb.StringValue: nil, or a pointer to a value
NilString == [isNil |-> TRUE, Value |-> <<>>]
StringValue(s) == [isNil |-> FALSE, Value |-> s]
GetValue(w) == IF w.isNil THEN <<>> ELSE w.Value

\* *timestamppb.Timestamp: nil, or a pointer to a time
NilTimestamp == [isNil |-> TRUE, Time |-> 0]
timestamppb_New(t) == [isNil |-> FALSE, Time |-> t]

\* a nil response message
NilResponse == [isNil |-> TRUE]

-----------------------------------------------------------------------------
(* strings.TrimSpace *)

IsSpace(c) == c = " "

RECURSIVE TrimLeft(_)
TrimLeft(s) ==
    IF s # <<>> /\ IsSpace(Head(s)) THEN TrimLeft(Tail(s)) ELSE s

RECURSIVE TrimRight(_)
TrimRight(s) ==
    IF s # <<>> /\ IsSpace(s[Len(s)]) THEN TrimRight(SubSeq(s, 1, Len(s) - 1)) ELSE s

TrimSpace(s) == TrimRight(TrimLeft(s))

-----------------------------------------------------------------------------
(* grpc/pkg/user_v1: the request validators.  Each returns the status code *)
(* of the error it returns, OK for nil.                                    *)

\* mutant: the check of the id tests the wrong thing
GetUserInfoRequest_Validate_Negative(req) ==
    IF req.Id < 0 THEN InvalidArgument ELSE OK

GetUserInfoRequest_Validate(req) ==
    IF req.Id = 0 THEN InvalidArgument ELSE OK

\* mutant: the name is tested without trimming it
CreateUserRequest_Validate_Untrimmed(req) ==
    IF Len(req.Name) = 0 THEN InvalidArgument
    ELSE IF Len(TrimSpace(req.Email)) = 0 THEN InvalidArgument
    ELSE IF (req.Password # req.PasswordConfirm) \/ Len(TrimSpace(req.Password)) = 0
         THEN InvalidArgument
    ELSE IF req.Role = UserRole_UNKNOWN THEN InvalidArgument
    ELSE OK

\* mutant: the password is not compared with its confirmation
CreateUserRequest_Validate_NoConfirm(req) ==
    IF Len(TrimSpace(req.Name)) = 0 THEN InvalidArgument
    ELSE IF Len(TrimSpace(req.Email)) = 0 THEN InvalidArgument
    ELSE IF Len(TrimSpace(req.Password)) = 0 THEN InvalidArgument
    ELSE IF req.Role = UserRole_UNKNOWN THEN InvalidArgument
    ELSE OK

CreateUserRequest_Validate(req) ==
    IF Len(TrimSpace(req.Name)) = 0 THEN InvalidArgument
    ELSE IF Len(TrimSpace(req.Email)) = 0 THEN InvalidArgument
    ELSE IF (req.Password # req.PasswordConfirm) \/ Len(TrimSpace(req.Password)) = 0
         THEN InvalidArgument
    ELSE IF req.Role = UserRole_UNKNOWN THEN InvalidArgument
    ELSE OK

\* mutant: the role is not checked
UpdateUserRequest_Validate_AnyRole(req) == OK

UpdateUserRequest_Validate(req) ==
    IF req.Role = UserRole_UNKNOWN THEN InvalidArgument ELSE OK

DeleteUserRequest_Validate(req) ==
    IF req.Id = 0 THEN InvalidArgument ELSE OK

-----------------------------------------------------------------------------
(* The query builder (squirrel).  A builder is an immutable value: Set,    *)
(* Columns, Values and Where return a new builder.  cols/vals are the      *)
(* select list, the insert columns and values, or the SET clauses in       *)
(* order; where is the sq.Eq{id: ...} condition.                           *)

tableName == "auth"
idColumn == "id"
nameColumn == "name"
emailColumn == "email"
roleColumn == "role"
createdAtColumn == "created_at"
updatedAtColumn == "updated_at"
passwordColumn == "password"
passwordConfirmColumn == "password_confirm"

sq_Builder(verb, table) ==
    [verb |-> verb, table |-> table, cols |-> <<>>, vals |-> <<>>, where |-> <<>>]

sq_Select(cols) == [sq_Builder("SELECT", "") EXCEPT !.cols = cols]
sq_From(b, table) == [b EXCEPT !.table = table]
sq_Insert(table) == sq_Builder("INSERT", table)
sq_Columns(b, cols) == [b EXCEPT !.cols = cols]
sq_Values(b, vals) == [b EXCEPT !.vals = vals]
sq_Update(table) == sq_Builder("UPDATE", table)
sq_Set(b, column, value) ==
    [b EXCEPT !.cols = Append(@, column), !.vals = Append(@, value)]
sq_Delete(table) == sq_Builder("DELETE", table)
sq_Where(b, column, value) == [b EXCEPT !.where = Append(@, <<column, value>>)]

\* ToSql: the error cases of the builders (no select column, no insert
\* value, no SET clause, no table); err = FALSE means a statement was built.
sq_ToSql(b) ==
    [err |-> \/ b.table = ""
             \/ (b.verb = "SELECT" /\ Len(b.cols) = 0)
             \/ (b.verb = "INSERT" /\ Len(b.vals) = 0)
             \/ (b.verb = "UPDATE" /\ Len(b.cols) = 0),
     query |-> b]

\* the columns a statement names
StmtColumns(q) ==
    {q.cols[i] : i \in 1..Len(q.cols)} \cup {q.where[i][1] : i \in 1..Len(q.where)}

-----------------------------------------------------------------------------
(* The database: table auth.  The migration creates the columns of         *)
(* MigrationColumns; the INSERT of CreateUser also names password and      *)
(* password_confirm, so the model lets the deployed table be either the    *)
(* migration's or the migration's with those two columns added (Init).     *)
(* A statement that names a column the table lacks fails.                  *)

MigrationColumns ==
    {idColumn, nameColumn, emailColumn, roleColumn, createdAtColumn, updatedAtColumn}

PasswordColumns == {passwordColumn, passwordConfirmColumn}

NotNullColumns == {idColumn, nameColumn, emailColumn, createdAtColumn}

\* serial, and default now()
DefaultedColumns == {idColumn, createdAtColumn}

\* SQL NULL as a bound argument or a stored value: a token no string of the
\* model (a sequence of single characters) is equal to
SqlNull == <<"NULL">>

\* the value a column takes when an INSERT does not name it
ColumnDefault(c) ==
    CASE c = idColumn -> authSeq
      [] c = createdAtColumn -> clock
      [] c = updatedAtColumn -> NullTime
      [] OTHER -> SqlNull

\* the position of column c in a statement's column list, 0 if absent
\* (the last one wins when a column is set twice)
ColumnIndex(q, c) ==
    LET S == {i \in 1..Len(q.cols) : q.cols[i] = c}
    IN IF S = {} THEN 0 ELSE CHOOSE i \in S : \A j \in S : j <= i

\* the statement binds NULL to column c (only text columns are ever bound NULL)
TextColumns == {nameColumn, emailColumn, passwordColumn, passwordConfirmColumn}
SetsNull(q, c) ==
    c \in TextColumns /\ ColumnIndex(q, c) # 0 /\ q.vals[ColumnIndex(q, c)] = SqlNull

\* the ids of the rows a statement's WHERE id = $n selects
Matching(q) ==
    {id \in DOMAIN auth : \A i \in 1..Len(q.where) : q.where[i][2] = id}

\* Executing a statement: err, the rows returned, and the table and the
\* sequence afterwards.  dbOk = FALSE is a failure of the connection or of
\* the server, which leaves the table alone.
db_Failed == [err |-> TRUE, rows |-> <<>>, auth |-> auth, authSeq |-> authSeq]

db_Select(q) ==
    LET ids == Matching(q)
    IN [err |-> FALSE,
        rows |-> IF ids = {} THEN <<>> ELSE <<auth[CHOOSE id \in ids : TRUE]>>,
        auth |-> auth, authSeq |-> authSeq]

db_Insert(q) ==
    LET row == [c \in columns |->
                   IF ColumnIndex(q, c) # 0 THEN q.vals[ColumnIndex(q, c)]
                   ELSE ColumnDefault(c)]
    IN IF \/ Len(q.cols) # Len(q.vals)
          \/ \E c \in NotNullColumns \ DefaultedColumns : ColumnIndex(q, c) = 0
          \/ \E c \in NotNullColumns : SetsNull(q, c)
       THEN db_Failed
       ELSE [err |-> FALSE,
             rows |-> <<[id |-> row[idColumn]]>>,     \* RETURNING id
             auth |-> [id \in DOMAIN auth \cup {authSeq} |->
                          IF id = authSeq THEN row ELSE auth[id]],
             authSeq |-> authSeq + 1]

db_Update(q) ==
    LET ids == Matching(q)
    IN IF ids # {} /\ \E c \in NotNullColumns : SetsNull(q, c)
       THEN db_Failed                  \* a NOT NULL constraint is violated
       ELSE
       [err |-> FALSE, rows |-> <<>>,
        auth |-> [id \in DOMAIN auth |->
                     IF id \in ids
                     THEN [c \in columns |->
                              IF ColumnIndex(q, c) # 0 THEN q.vals[ColumnIndex(q, c)]
                              ELSE auth[id][c]]
                     ELSE auth[id]],
        authSeq |-> authSeq]

db_Delete(q) ==
    LET ids == Matching(q)
    IN [err |-> FALSE, rows |-> <<>>,
        auth |-> [id \in DOMAIN auth \ ids |-> auth[id]],
        authSeq |-> authSeq]

db_Exec(q, dbOk) ==
    IF ~dbOk \/ q.table # tableName \/ ~(StmtColumns(q) \subseteq columns)
    THEN db_Failed
    ELSE CASE q.verb = "SELECT" -> db_Select(q)
           [] q.verb = "INSERT" -> db_Insert(q)
           [] q.verb = "UPDATE" -> db_Update(q)
           [] q.verb = "DELETE" -> db_Delete(q)

-----------------------------------------------------------------------------
(* internal/repository/auth: the repository.  Each method returns the      *)
(* status code, the response, the table and sequence it leaves, and the    *)
(* statements it built.                                                    *)

Result(code, body, db, stmts) ==
    [code |-> code, body |-> body, auth |-> db.auth, authSeq |-> db.authSeq,
     stmts |-> stmts]

\* a return before anything was executed
Unchanged == [auth |-> auth, authSeq |-> authSeq]

\* mutant: updated_at is converted without looking at Valid
repo_GetUser_AlwaysTimestamp(req, dbOk) ==
    LET builderSelect ==
            sq_Where(
                sq_From(
                    sq_Select(<<idColumn, nameColumn, emailColumn, roleColumn,
                                createdAtColumn, updatedAtColumn>>),
                    tableName),
                idColumn, req.Id)
        sql == sq_ToSql(builderSelect)
        res == db_Exec(sql.query, dbOk)
    IN IF sql.err THEN Result(Internal, NilResponse, Unchanged, <<>>)
       ELSE IF res.err \/ res.rows = <<>>
            THEN Result(Internal, NilResponse, res, <<sql.query>>)
       ELSE LET row == res.rows[1]
                updatedAt == row[updatedAtColumn]
            IN Result(OK,
                      [Id |-> row[idColumn], Name |-> row[nameColumn],
                       Email |-> row[emailColumn], Role |-> row[roleColumn],
                       CreatedAt |-> timestamppb_New(row[createdAtColumn]),
                       UpdatedAt |-> timestamppb_New(updatedAt.Time)],
                      res, <<sql.query>>)

\* mutant: a missing row is reported with a code of its own
repo_GetUser_NotFound(req, dbOk) ==
    LET builderSelect ==
            sq_Where(
                sq_From(
                    sq_Select(<<idColumn, nameColumn, emailColumn, roleColumn,
                                createdAtColumn, updatedAtColumn>>),
                    tableName),
                idColumn, req.Id)
        sql == sq_ToSql(builderSelect)
        res == db_Exec(sql.query, dbOk)
    IN IF sql.err THEN Result(Internal, NilResponse, Unchanged, <<>>)
       ELSE IF res.err THEN Result(Internal, NilResponse, res, <<sql.query>>)
       ELSE IF res.rows = <<>> THEN Result("NotFound", NilResponse, res, <<sql.query>>)
       ELSE LET row == res.rows[1]
                updatedAt == row[updatedAtColumn]
                updatedAtProto ==
                    IF updatedAt.Valid THEN timestamppb_New(updatedAt.Time)
                    ELSE NilTimestamp
            IN Result(OK,
                      [Id |-> row[idColumn], Name |-> row[nameColumn],
                       Email |-> row[emailColumn], Role |-> row[roleColumn],
                       CreatedAt |-> timestamppb_New(row[createdAtColumn]),
                       UpdatedAt |-> updatedAtProto],
                      res, <<sql.query>>)

repo_GetUser(req, dbOk) ==
    LET builderSelect ==
            sq_Where(
                sq_From(
                    sq_Select(<<idColumn, nameColumn, emailColumn, roleColumn,
                                createdAtColumn, updatedAtColumn>>),
                    tableName),
                idColumn, req.Id)
        sql == sq_ToSql(builderSelect)
        res == db_Exec(sql.query, dbOk)
    IN IF sql.err THEN Result(Internal, NilResponse, Unchanged, <<>>)
       ELSE IF res.err \/ res.rows = <<>>       \* Scan: the error, or pgx.ErrNoRows
            THEN Result(Internal, NilResponse, res, <<sql.query>>)
       ELSE LET row == res.rows[1]
                updatedAt == row[updatedAtColumn]
                updatedAtProto ==
                    IF updatedAt.Valid THEN timestamppb_New(updatedAt.Time)
                    ELSE NilTimestamp
            IN Result(OK,
                      [Id |-> row[idColumn], Name |-> row[nameColumn],
                       Email |-> row[emailColumn], Role |-> row[roleColumn],
                       CreatedAt |-> timestamppb_New(row[createdAtColumn]),
                       UpdatedAt |-> updatedAtProto],
                      res, <<sql.query>>)

\* mutant: the name is stored trimmed, not as given
repo_CreateUser_Trimmed(req, dbOk) ==
    LET builderInsert ==
            sq_Values(
                sq_Columns(sq_Insert(tableName),
                           <<nameColumn, emailColumn, passwordColumn,
                             passwordConfirmColumn, roleColumn>>),
                <<TrimSpace(req.Name), req.Email, req.Password, req.PasswordConfirm,
                  req.Role>>)
        sql == sq_ToSql(builderInsert)
        res == db_Exec(sql.query, dbOk)
    IN IF sql.err THEN Result(Internal, NilResponse, Unchanged, <<>>)
       ELSE IF res.err \/ res.rows = <<>>
            THEN Result(Internal, NilResponse, res, <<sql.query>>)
       ELSE Result(OK, [Id |-> res.rows[1].id], res, <<sql.query>>)

repo_CreateUser(req, dbOk) ==
    LET builderInsert ==
            sq_Values(
                sq_Columns(sq_Insert(tableName),
                           <<nameColumn, emailColumn, passwordColumn,
                             passwordConfirmColumn, roleColumn>>),
                <<req.Name, req.Email, req.Password, req.PasswordConfirm, req.Role>>)
        sql == sq_ToSql(builderInsert)
        res == db_Exec(sql.query, dbOk)
    IN IF sql.err THEN Result(Internal, NilResponse, Unchanged, <<>>)
       ELSE IF res.err \/ res.rows = <<>>
            THEN Result(Internal, NilResponse, res, <<sql.query>>)
       ELSE Result(OK, [Id |-> res.rows[1].id], res, <<sql.query>>)

\* mutant: the time is written to created_at instead of updated_at
repo_UpdateUser_builder_CreatedAt(req) ==
    sq_Where(
        sq_Set(sq_Set(sq_Update(tableName), roleColumn, req.Role),
               createdAtColumn, clock),
        idColumn, req.Id)

\* mutant: the role is left out of the SET clauses
repo_UpdateUser_builder_NoRole(req) ==
    sq_Where(sq_Set(sq_Update(tableName), updatedAtColumn, ValidTime(clock)),
             idColumn, req.Id)

\* The builder repo.UpdateUser hands to ToSql.  builderUpdate.Set(...) in
\* the two if-blocks returns a new builder that the code drops: the
\* receiver builderUpdate is not changed by it.
repo_UpdateUser_builder(req) ==
    LET builderUpdate ==
            sq_Where(
                sq_Set(sq_Set(sq_Update(tableName), roleColumn, req.Role),
                       updatedAtColumn, ValidTime(clock)),
                idColumn, req.Id)
        trimmedName == TrimSpace(GetValue(req.Name))
        droppedName ==
            IF ~req.Name.isNil /\ Len(trimmedName) > 0
            THEN sq_Set(builderUpdate, nameColumn, trimmedName) ELSE builderUpdate
        trimmedEmail == TrimSpace(GetValue(req.Email))
        droppedEmail ==
            IF ~req.Email.isNil /\ Len(trimmedEmail) > 0
            THEN sq_Set(builderUpdate, emailColumn, trimmedEmail) ELSE builderUpdate
    IN builderUpdate

\* mutant: an UPDATE that affects no row is reported as an error
repo_UpdateUser_RowsAffected(req, dbOk) ==
    LET sql == sq_ToSql(repo_UpdateUser_builder(req))
        res == db_Exec(sql.query, dbOk)
    IN IF sql.err THEN Result(Internal, NilResponse, Unchanged, <<>>)
       ELSE IF res.err \/ Matching(sql.query) = {}
            THEN Result(Internal, NilResponse, res, <<sql.query>>)
       ELSE Result(OK, NilResponse, res, <<sql.query>>)

\* mutant: an UPDATE that matches no row puts a row with that id back
repo_UpdateUser_Upsert(req, dbOk) ==
    LET sql == sq_ToSql(repo_UpdateUser_builder(req))
        res == db_Exec(sql.query, dbOk)
        restored ==
            [id \in DOMAIN auth \cup {req.Id} |->
                IF id \in DOMAIN auth THEN res.auth[id]
                ELSE [c \in columns |->
                         CASE c = idColumn -> req.Id
                           [] c = roleColumn -> req.Role
                           [] c = createdAtColumn -> clock
                           [] c = updatedAtColumn -> ValidTime(clock)
                           [] OTHER -> <<>>]]
    IN IF sql.err THEN Result(Internal, NilResponse, Unchanged, <<>>)
       ELSE IF res.err THEN Result(Internal, NilResponse, res, <<sql.query>>)
       ELSE IF req.Id \in 1..(authSeq - 1) /\ req.Id \notin DOMAIN auth
            THEN Result(OK, NilResponse, [res EXCEPT !.auth = restored],
                        <<sql.query>>)
       ELSE Result(OK, NilResponse, res, <<sql.query>>)

repo_UpdateUser(req, dbOk) ==
    LET sql == sq_ToSql(repo_UpdateUser_builder(req))
        res == db_Exec(sql.query, dbOk)
    IN IF sql.err THEN Result(Internal, NilResponse, Unchanged, <<>>)
       ELSE IF res.err THEN Result(Internal, NilResponse, res, <<sql.query>>)
       ELSE Result(OK, NilResponse, res, <<sql.query>>)

\* mutant: the DELETE has no WHERE clause
repo_DeleteUser_NoWhere(req, dbOk) ==
    LET builderDelete == sq_Delete(tableName)
        sql == sq_ToSql(builderDelete)
        res == db_Exec(sql.query, dbOk)
    IN IF sql.err THEN Result(Internal, NilResponse, Unchanged, <<>>)
       ELSE IF res.err THEN Result(Internal, NilResponse, res, <<sql.query>>)
       ELSE Result(OK, NilResponse, res, <<sql.query>>)

repo_DeleteUser(req, dbOk) ==
    LET builderDelete == sq_Where(sq_Delete(tableName), idColumn, req.Id)
        sql == sq_ToSql(builderDelete)
        res == db_Exec(sql.query, dbOk)
    IN IF sql.err THEN Result(Internal, NilResponse, Unchanged, <<>>)
       ELSE IF res.err THEN Result(Internal, NilResponse, res, <<sql.query>>)
       ELSE Result(OK, NilResponse, res, <<sql.query>>)

-----------------------------------------------------------------------------
(* The service handlers: validation, then the repository.                  *)

server_GetUserInfo(req, dbOk) ==
    IF GetUserInfoRequest_Validate(req) # OK
    THEN Result(GetUserInfoRequest_Validate(req), NilResponse, Unchanged, <<>>)
    ELSE repo_GetUser(req, dbOk)

server_CreateUser(req, dbOk) ==
    IF CreateUserRequest_Validate(req) # OK
    THEN Result(CreateUserRequest_Validate(req), NilResponse, Unchanged, <<>>)
    ELSE repo_CreateUser(req, dbOk)

server_UpdateUser(req, dbOk) ==
    IF UpdateUserRequest_Validate(req) # OK
    THEN Result(UpdateUserRequest_Validate(req), NilResponse, Unchanged, <<>>)
    ELSE LET r == repo_UpdateUser(req, dbOk)
         IN IF r.code # OK THEN r
            ELSE [r EXCEPT !.body = [isNil |-> FALSE]]     \* &emptypb.Empty{}

server_DeleteUser(req, dbOk) ==
    IF DeleteUserRequest_Validate(req) # OK
    THEN Result(DeleteUserRequest_Validate(req), NilResponse, Unchanged, <<>>)
    ELSE LET r == repo_DeleteUser(req, dbOk)
         IN IF r.code # OK THEN r
            ELSE [r EXCEPT !.body = [isNil |-> FALSE]]     \* &emptypb.Empty{}

-----------------------------------------------------------------------------
(* grpc/grpc_server/main.go: the server that holds the pool itself.  Its   *)
(* handlers build and execute the statements without validating the        *)
(* request, and its UpdateUser binds req.Name and req.Email, the           *)
(* *wrapperspb.StringValue pointers, as they are.                          *)

\* How the driver binds a *wrapperspb.StringValue argument: a nil pointer is
\* NULL; a non-nil pointer is dereferenced to a struct that no text encoder
\* accepts, and the Exec fails before anything is sent.
pgx_Arg(w) ==
    IF w.isNil THEN [err |-> FALSE, value |-> SqlNull]
    ELSE [err |-> TRUE, value |-> w.Value]

grpc_server_GetUserInfo(req, dbOk) ==
    LET builderSelect ==
            sq_Where(
                sq_From(
                    sq_Select(<<"id", "name", "email", "role", "created_at",
                                "updated_at">>),
                    "auth"),
                "id", req.Id)
        sql == sq_ToSql(builderSelect)
        res == db_Exec(sql.query, dbOk)
    IN IF sql.err THEN Result(Internal, NilResponse, Unchanged, <<>>)
       ELSE IF res.err \/ res.rows = <<>>
            THEN Result(Internal, NilResponse, res, <<sql.query>>)
       ELSE LET row == res.rows[1]
                updatedAt == row["updated_at"]
                updatedAtProto ==
                    IF updatedAt.Valid THEN timestamppb_New(updatedAt.Time)
                    ELSE NilTimestamp
            IN Result(OK,
                      [Id |-> row["id"], Name |-> row["name"],
                       Email |-> row["email"], Role |-> row["role"],
                       CreatedAt |-> timestamppb_New(row["created_at"]),
                       UpdatedAt |-> updatedAtProto],
                      res, <<sql.query>>)

grpc_server_CreateUser(req, dbOk) ==
    LET builderInsert ==
            sq_Values(
                sq_Columns(sq_Insert("auth"),
                           <<"name", "email", "password", "password_confirm", "role">>),
                <<req.Name, req.Email, req.Password, req.PasswordConfirm, req.Role>>)
        sql == sq_ToSql(builderInsert)
        res == db_Exec(sql.query, dbOk)
    IN IF sql.err THEN Result(Internal, NilResponse, Unchanged, <<>>)
       ELSE IF res.err \/ res.rows = <<>>
            THEN Result(Internal, NilResponse, res, <<sql.query>>)
       ELSE Result(OK, [Id |-> res.rows[1].id], res, <<sql.query>>)

grpc_server_UpdateUser(req, dbOk) ==
    LET name == pgx_Arg(req.Name)
        email == pgx_Arg(req.Email)
        builderUpdate ==
            sq_Where(
                sq_Set(sq_Set(sq_Set(sq_Set(sq_Update("auth"),
                                            "name", name.value),
                                     "email", email.value),
                              "role", req.Role),
                       "updated_at", ValidTime(clock)),
                "id", req.Id)
        sql == sq_ToSql(builderUpdate)
        res == IF name.err \/ email.err THEN db_Failed ELSE db_Exec(sql.query, dbOk)
    IN IF sql.err THEN Result(Internal, NilResponse, Unchanged, <<>>)
       ELSE IF res.err THEN Result(Internal, NilResponse, res, <<sql.query>>)
       ELSE Result(OK, [isNil |-> FALSE], res, <<sql.query>>)

grpc_server_DeleteUser(req, dbOk) ==
    LET builderDelete == sq_Where(sq_Delete("auth"), "id", req.Id)
        sql == sq_ToSql(builderDelete)
        res == db_Exec(sql.query, dbOk)
    IN IF sql.err THEN Result(Internal, NilResponse, Unchanged, <<>>)
       ELSE IF res.err THEN Result(Internal, NilResponse, res, <<sql.query>>)
       ELSE Result(OK, [isNil |-> FALSE], res, <<sql.query>>)

-----------------------------------------------------------------------------
(* The requests the clients send *)

Ids == 0..(MaxId + 1)        \* 0 is an unset id; MaxId + 1 is never generated

Names == {<<>>, <<" ">>, <<" ", "a">>}
Emails == {<<" ">>, <<"b", " ">>}
Passwords == {<<>>, <<" ">>, <<"p">>}
PasswordConfirms == {<<" ">>, <<"p">>}

NewNames == {NilString, StringValue(<<" ">>), StringValue(<<"c", " ">>)}
NewEmails == {NilString, StringValue(<<" ">>), StringValue(<<" ", "d">>)}

GetUserInfoRequests == [Id : Ids]
CreateUserRequests ==
    [Name : Names, Email : Emails, Password : Passwords,
     PasswordConfirm : PasswordConfirms, Role : UserRoles]
UpdateUserRequests == [Id : Ids, Name : NewNames, Email : NewEmails, Role : UserRoles]
DeleteUserRequests == [Id : Ids]

-----------------------------------------------------------------------------
(* The state machine *)

\* no call in flight: the client has its last response
Idle == [rpc |-> "none", req |-> [Id |-> 0], dbOk |-> TRUE, code |-> OK,
         body |-> NilResponse, stmts |-> <<>>]

\* the calls the server can be serving at once, one goroutine each
Clients == 1..NumClients

\* no call in progress
NoCall == [rpc |-> "none"]

Init ==
    /\ auth = <<>>
    /\ authSeq = 1
    /\ clock = 0
    /\ columns \in {MigrationColumns, MigrationColumns \cup PasswordColumns}
    /\ call = Idle
    /\ given = <<>>
    /\ pending = [c \in Clients |-> NoCall]

\* the history after a handler returned r for request req
Given(rpc, req, r) ==
    [id \in DOMAIN r.auth |->
        IF id \notin DOMAIN given
        THEN [req |-> req, CreatedAt |-> r.auth[id][createdAtColumn], Updated |-> FALSE]
        ELSE IF r.auth[id] # auth[id]
             THEN [given[id] EXCEPT !.Updated = TRUE]
             ELSE given[id]]

\* the effect of a handler that returned r for request req
Return(rpc, req, dbOk, r) ==
    /\ auth' = r.auth
    /\ authSeq' = r.authSeq
    /\ call' = [rpc |-> rpc, req |-> req, dbOk |-> dbOk, code |-> r.code,
                body |-> r.body, stmts |-> r.stmts]
    /\ given' = Given(rpc, req, r)
    /\ UNCHANGED <<clock, columns, pending>>

GetUserInfo ==
    /\ call = Idle
    /\ \E req \in GetUserInfoRequests, dbOk \in BOOLEAN :
           Return("GetUserInfo", req, dbOk, server_GetUserInfo(req, dbOk))

CreateUser ==
    /\ call = Idle
    /\ authSeq <= MaxId
    /\ \E req \in CreateUserRequests, dbOk \in BOOLEAN :
           Return("CreateUser", req, dbOk, server_CreateUser(req, dbOk))

UpdateUser ==
    /\ call = Idle
    /\ \E req \in UpdateUserRequests, dbOk \in BOOLEAN :
           Return("UpdateUser", req, dbOk, server_UpdateUser(req, dbOk))

DeleteUser ==
    /\ call = Idle
    /\ \E req \in DeleteUserRequests, dbOk \in BOOLEAN :
           Return("DeleteUser", req, dbOk, server_DeleteUser(req, dbOk))

\* the client takes the response; the next call can be made
Respond ==
    /\ call # Idle
    /\ call' = Idle
    /\ UNCHANGED <<auth, authSeq, clock, columns, given, pending>>

Tick ==
    /\ call = Idle
    /\ clock < MaxTime
    /\ clock' = clock + 1
    /\ UNCHANGED <<auth, authSeq, columns, call, given, pending>>

Next == GetUserInfo \/ CreateUser \/ UpdateUser \/ DeleteUser \/ Respond \/ Tick

Spec == Init /\ [][Next]_vars

(* The same clients and database, served by grpc/grpc_server/main.go *)

GrpcServerGetUserInfo ==
    /\ call = Idle
    /\ \E req \in GetUserInfoRequests, dbOk \in BOOLEAN :
           Return("GetUserInfo", req, dbOk, grpc_server_GetUserInfo(req, dbOk))

GrpcServerCreateUser ==
    /\ call = Idle
    /\ authSeq <= MaxIdGrpcServer
    /\ \E req \in CreateUserRequests, dbOk \in BOOLEAN :
           Return("CreateUser", req, dbOk, grpc_server_CreateUser(req, dbOk))

GrpcServerUpdateUser ==
    /\ call = Idle
    /\ \E req \in UpdateUserRequests, dbOk \in BOOLEAN :
           Return("UpdateUser", req, dbOk, grpc_server_UpdateUser(req, dbOk))

GrpcServerDeleteUser ==
    /\ call = Idle
    /\ \E req \in DeleteUserRequests, dbOk \in BOOLEAN :
           Return("DeleteUser", req, dbOk, grpc_server_DeleteUser(req, dbOk))

NextGrpcServer ==
    \/ GrpcServerGetUserInfo \/ GrpcServerCreateUser \/ GrpcServerUpdateUser
    \/ GrpcServerDeleteUser \/ Respond \/ Tick

SpecGrpcServer == Init /\ [][NextGrpcServer]_vars

-----------------------------------------------------------------------------
(* Properties *)

\* a row of the table was inserted and is still there
RowOf(id) == id \in DOMAIN auth

\* C1: GetUserInfo and DeleteUser return InvalidArgument whenever the
\* request id is 0, whatever rows the table holds.
C1_ZeroIdIsInvalidArgument ==
    (call.rpc \in {"GetUserInfo", "DeleteUser"} /\ call.req.Id = 0)
        => call.code = InvalidArgument

\* DeleteUser with id 0 was rejected while the table held a row
C1_Witness ==
    /\ call.rpc = "DeleteUser" /\ call.req.Id = 0 /\ call.code = InvalidArgument
    /\ DOMAIN auth # {}

\* C2: CreateUser returns InvalidArgument whenever the name is empty after
\* trimming or the email is empty after trimming, whatever the other fields.
C2_BlankNameOrEmailIsInvalidArgument ==
    (/\ call.rpc = "CreateUser"
     /\ \/ TrimSpace(call.req.Name) = <<>>
        \/ TrimSpace(call.req.Email) = <<>>)
        => call.code = InvalidArgument

\* a CreateUser whose name is only whitespace and whose other fields are
\* valid was rejected
C2_Witness ==
    /\ call.rpc = "CreateUser" /\ call.code = InvalidArgument
    /\ call.req.Name = <<" ">>
    /\ TrimSpace(call.req.Email) # <<>>
    /\ call.req.Password = <<"p">> /\ call.req.PasswordConfirm = <<"p">>
    /\ call.req.Role = UserRole_USER

C4_UnknownRoleIsInvalidArgument ==
    (call.rpc \in {"CreateUser", "UpdateUser"} /\ call.req.Role = UserRole_UNKNOWN)
        => call.code = InvalidArgument

\* an UpdateUser of an existing row with role UNKNOWN was rejected
C4_Witness ==
    /\ call.rpc = "UpdateUser" /\ call.req.Role = UserRole_UNKNOWN
    /\ RowOf(call.req.Id)
    /\ call.code = InvalidArgument

\* C5 as claimed: a successful UpdateUser of an existing row with a
\* non-blank email and no name sets the row's email to the trimmed request
\* email, sets role and updated_at, and leaves the name as it was.
C5_UpdateEmailOnly ==
    [][(/\ call'.rpc = "UpdateUser" /\ call.rpc = "none"
        /\ call'.code = OK
        /\ call'.req.Id \in DOMAIN auth
        /\ call'.req.Name.isNil
        /\ ~call'.req.Email.isNil
        /\ TrimSpace(call'.req.Email.Value) # <<>>)
       => /\ call'.req.Id \in DOMAIN auth'
          /\ auth'[call'.req.Id][emailColumn] = TrimSpace(call'.req.Email.Value)
          /\ auth'[call'.req.Id][roleColumn] = call'.req.Role
          /\ auth'[call'.req.Id][updatedAtColumn] = ValidTime(clock)
          /\ auth'[call'.req.Id][nameColumn] = auth[call'.req.Id][nameColumn]]_vars

\* C6 as claimed: a successful CreateUser returns a positive id, and a
\* later GetUserInfo of that id, not deleted in between, whose query the
\* database executes, succeeds with that id and the name, email and role
\* given to CreateUser.
C6_CreateThenGet ==
    /\ (call.rpc = "CreateUser" /\ call.code = OK) => call.body.Id > 0
    /\ (/\ call.rpc = "GetUserInfo"
        /\ call.req.Id \in DOMAIN given
        /\ RowOf(call.req.Id)
        /\ call.dbOk)
           => /\ call.code = OK
              /\ call.body.Id = call.req.Id
              /\ call.body.Name = given[call.req.Id].req.Name
              /\ call.body.Email = given[call.req.Id].req.Email
              /\ call.body.Role = given[call.req.Id].req.Role

\* C6 amended: the same, for a row that no successful UpdateUser has
\* written since its creation.
C6_CreateThenGetNoUpdate ==
    /\ (call.rpc = "CreateUser" /\ call.code = OK) => call.body.Id > 0
    /\ (/\ call.rpc = "GetUserInfo"
        /\ call.req.Id \in DOMAIN given
        /\ RowOf(call.req.Id)
        /\ ~given[call.req.Id].Updated
        /\ call.dbOk)
           => /\ call.code = OK
              /\ call.body.Id = call.req.Id
              /\ call.body.Name = given[call.req.Id].req.Name
              /\ call.body.Email = given[call.req.Id].req.Email
              /\ call.body.Role = given[call.req.Id].req.Role

\* GetUserInfo returned the second created row, whose name was given with
\* leading whitespace, while the first row had been updated
C6_Witness ==
    /\ call.rpc = "GetUserInfo" /\ call.code = OK
    /\ call.req.Id = 2
    /\ ~given[2].Updated
    /\ call.body.Name = <<" ", "a">>
    /\ 1 \in DOMAIN given /\ given[1].Updated

\* the handler's validator for a call
Validate(rpc, req) ==
    CASE rpc = "GetUserInfo" -> GetUserInfoRequest_Validate(req)
      [] rpc = "CreateUser" -> CreateUserRequest_Validate(req)
      [] rpc = "UpdateUser" -> UpdateUserRequest_Validate(req)
      [] rpc = "DeleteUser" -> DeleteUserRequest_Validate(req)

\* C9: a call returns OK, InvalidArgument or Internal; InvalidArgument exactly
\* when validation fails, Internal only after a statement was built and its
\* execution failed; GetUserInfo of a non-zero id that matches no row returns
\* Internal.
C9_OnlyInvalidArgumentOrInternal ==
    call.rpc # "none" =>
        /\ call.code \in {OK, InvalidArgument, Internal}
        /\ call.code = InvalidArgument <=> Validate(call.rpc, call.req) # OK
        /\ call.code = InvalidArgument => call.stmts = <<>>
        /\ call.code = Internal => call.stmts # <<>>
        /\ (/\ call.rpc = "GetUserInfo"
            /\ call.req.Id # 0
            /\ ~RowOf(call.req.Id))
               => call.code = Internal

\* GetUserInfo of an id that matches no row of a table that holds a row: the
\* query was executed and the call returned Internal
C9_Witness ==
    /\ call.rpc = "GetUserInfo" /\ call.req.Id # 0 /\ ~RowOf(call.req.Id)
    /\ call.dbOk /\ DOMAIN auth # {}
    /\ call.code = Internal

\* C10: created_at is the time of the insert, and every row's created_at is
\* the value it had right after CreateUser, whatever UpdateUser calls followed.
C10_CreatedAtImmutable ==
    /\ (call.rpc = "CreateUser" /\ call.code = OK)
           => auth[call.body.Id][createdAtColumn] = clock
    /\ \A id \in DOMAIN auth : auth[id][createdAtColumn] = given[id].CreatedAt

\* a row updated at a later time than it was created at
C10_Witness ==
    \E id \in DOMAIN auth :
        /\ given[id].Updated
        /\ auth[id][updatedAtColumn].Valid
        /\ auth[id][updatedAtColumn].Time > auth[id][createdAtColumn]

\* C7 as claimed: no row of the table, each written by a successful
\* CreateUser or UpdateUser, has role UNKNOWN.
C7_RoleNeverUnknown ==
    \A id \in DOMAIN auth : auth[id][roleColumn] # UserRole_UNKNOWN

\* C8 as claimed: a handler whose request fails validation builds and
\* executes no statement, and leaves the rows as they were.
C8_InvalidRequestTouchesNothing ==
    [][(/\ call.rpc = "none" /\ call'.rpc # "none"
        /\ Validate(call'.rpc, call'.req) # OK)
       => /\ call'.stmts = <<>>
          /\ auth' = auth]_vars

\* a string value that is present and blank after trimming
Blank(w) == ~w.isNil /\ TrimSpace(w.Value) = <<>>

\* C11 as claimed: an UpdateUser whose name (email) is present and blank is
\* not rejected for it: with a valid role it succeeds when the database
\* executes the statement, and the stored name (email) is what it was.
C11_BlankNameOrEmailIgnored ==
    [][(/\ call.rpc = "none" /\ call'.rpc = "UpdateUser"
        /\ call'.req.Role # UserRole_UNKNOWN
        /\ call'.dbOk
        /\ Blank(call'.req.Name) \/ Blank(call'.req.Email))
       => /\ call'.code = OK
          /\ \A id \in DOMAIN auth :
                /\ id \in DOMAIN auth'
                /\ Blank(call'.req.Name)
                       => auth'[id][nameColumn] = auth[id][nameColumn]
                /\ Blank(call'.req.Email)
                       => auth'[id][emailColumn] = auth[id][emailColumn]]_vars

\* C12: after a successful UpdateUser of an existing row, the row's role is
\* the request's role and its updated_at is the (non-null) time of the call,
\* whether or not name or email were provided.
C12_UpdateSetsRoleAndUpdatedAt ==
    (call.rpc = "UpdateUser" /\ call.code = OK /\ RowOf(call.req.Id))
        => /\ auth[call.req.Id][roleColumn] = call.req.Role
           /\ auth[call.req.Id][updatedAtColumn] = ValidTime(clock)

\* a successful UpdateUser with a name and no email changed the role of a
\* row that was created with another role
C12_Witness ==
    /\ call.rpc = "UpdateUser" /\ call.code = OK /\ RowOf(call.req.Id)
    /\ ~call.req.Name.isNil /\ ~Blank(call.req.Name) /\ call.req.Email.isNil
    /\ given[call.req.Id].req.Role # call.req.Role
    /\ auth[call.req.Id][roleColumn] = call.req.Role

\* C13: a row's updated_at is NULL until a successful UpdateUser has
\* written the row, and GetUserInfo returns a nil UpdatedAt exactly when the
\* stored updated_at is NULL, and the stored time otherwise.
C13_UpdatedAtNullUntilUpdate ==
    /\ \A id \in DOMAIN auth :
           ~given[id].Updated => auth[id][updatedAtColumn] = NullTime
    /\ (call.rpc = "GetUserInfo" /\ call.code = OK)
           => /\ call.body.UpdatedAt.isNil
                     <=> ~auth[call.req.Id][updatedAtColumn].Valid
              /\ ~call.body.UpdatedAt.isNil
                     => call.body.UpdatedAt.Time
                            = auth[call.req.Id][updatedAtColumn].Time

\* GetUserInfo returned a nil UpdatedAt for a row never updated, at a later
\* time than its creation, while another row had been updated
C13_Witness ==
    /\ call.rpc = "GetUserInfo" /\ call.code = OK
    /\ ~given[call.req.Id].Updated
    /\ call.body.UpdatedAt.isNil
    /\ clock > auth[call.req.Id][createdAtColumn]
    /\ \E id \in DOMAIN auth : given[id].Updated /\ auth[id][updatedAtColumn].Valid

\* the ids the sequence has handed out whose row is gone
Deleted == {id \in 1..(authSeq - 1) : id \notin DOMAIN auth}

\* C14: a successful DeleteUser(id) leaves no row with that id and leaves
\* every row with another id as it was; a removed id stays removed, and a
\* GetUserInfo of a removed id returns Internal.
C14_DeleteRemovesOnlyThatRow ==
    [][/\ (call.rpc = "none" /\ call'.rpc = "DeleteUser" /\ call'.code = OK)
            => /\ call'.req.Id \notin DOMAIN auth'
               /\ \A id \in DOMAIN auth \ {call'.req.Id} :
                      id \in DOMAIN auth' /\ auth'[id] = auth[id]
       /\ Deleted \subseteq Deleted'
       /\ (call.rpc = "none" /\ call'.rpc = "GetUserInfo"
               /\ call'.req.Id \in Deleted)
            => call'.code = Internal /\ call'.body = NilResponse]_vars

\* DeleteUser of row 1 succeeded: the row is gone, row 2 is still there
C14_Witness ==
    /\ call.rpc = "DeleteUser" /\ call.code = OK /\ call.req.Id = 1
    /\ 1 \in Deleted
    /\ RowOf(2)

\* C15: an UpdateUser or DeleteUser that passes validation, whose id matches
\* no row, and whose statement the database executes, returns OK and leaves
\* the table as it was; UpdateUser with id 0 is such a call.
C15_NoMatchingRowIsSuccess ==
    [][(/\ call.rpc = "none" /\ call'.rpc \in {"UpdateUser", "DeleteUser"}
        /\ Validate(call'.rpc, call'.req) = OK
        /\ call'.dbOk
        /\ call'.req.Id \notin DOMAIN auth)
       => /\ call'.code = OK
          /\ call'.stmts # <<>>
          /\ auth' = auth]_vars

\* UpdateUser with id 0 returned OK on a table that has rows
C15_Witness ==
    /\ call.rpc = "UpdateUser" /\ call.code = OK /\ call.req.Id = 0
    /\ call.stmts # <<>>
    /\ auth # <<>>

\* C16 as claimed: every column a statement names is a column of the table
\* the migration creates, and a CreateUser that passes validation succeeds
\* against that table when the database executes the statement.
C16_StatementColumnsInMigration ==
    /\ \A i \in 1..Len(call.stmts) :
           StmtColumns(call.stmts[i]) \subseteq MigrationColumns
    /\ (/\ call.rpc = "CreateUser"
        /\ Validate(call.rpc, call.req) = OK
        /\ call.dbOk
        /\ columns = MigrationColumns)
           => call.code = OK

-----------------------------------------------------------------------------
(* Concurrent calls.  grpc.Server serves every call on a goroutine of its  *)
(* own, and the repository uses no transaction: a handler validates its    *)
(* request, and the one statement of its repository method is executed by  *)
(* the database at some later moment, atomically, with the statements of   *)
(* other calls in between.                                                 *)

\* The requests of the concurrent clients: every id and role; one password,
\* one email, and no new name or email (an UpdateUser never writes them).
ConcurrentRequests(rpc) ==
    CASE rpc = "GetUserInfo" -> GetUserInfoRequests
      [] rpc = "CreateUser" ->
            {req \in CreateUserRequests :
                /\ req.Email = <<"b", " ">>
                /\ req.Password = <<"p">> /\ req.PasswordConfirm = <<"p">>}
      [] rpc = "UpdateUser" ->
            {req \in UpdateUserRequests : req.Name.isNil /\ req.Email.isNil}
      [] rpc = "DeleteUser" -> DeleteUserRequests

\* what the handler of rpc returns for req once its statement is executed
server_Handle(rpc, req, dbOk) ==
    CASE rpc = "GetUserInfo" -> server_GetUserInfo(req, dbOk)
      [] rpc = "CreateUser" -> server_CreateUser(req, dbOk)
      [] rpc = "UpdateUser" -> server_UpdateUser(req, dbOk)
      [] rpc = "DeleteUser" -> server_DeleteUser(req, dbOk)

\* whether the table holds the row a request names (a CreateUser names none)
RowSeen(req) == "Id" \in DOMAIN req /\ RowOf(req.Id)

\* A call arrives and its handler runs req.Validate(): a rejected request is
\* answered at once, an accepted one goes on to the repository.  sawRow notes
\* whether the row of the request's id was there at that moment.
ConcurrentValidate ==
    /\ call = Idle
    /\ \E c \in Clients,
          rpc \in {"GetUserInfo", "CreateUser", "UpdateUser", "DeleteUser"} :
         /\ pending[c] = NoCall
         /\ rpc = "CreateUser" => authSeq <= MaxId
         /\ \E req \in ConcurrentRequests(rpc) :
              IF Validate(rpc, req) = OK
              THEN /\ pending' = [pending EXCEPT ![c] =
                                     [rpc |-> rpc, req |-> req,
                                      sawRow |-> RowSeen(req)]]
                   /\ UNCHANGED <<auth, authSeq, clock, columns, call, given>>
              ELSE /\ call' = [rpc |-> rpc, req |-> req, dbOk |-> TRUE,
                               code |-> Validate(rpc, req),
                               body |-> NilResponse, stmts |-> <<>>,
                               sawRow |-> RowSeen(req)]
                   /\ UNCHANGED <<auth, authSeq, clock, columns, given, pending>>

\* The statement of a validated call is executed and the handler returns.
ConcurrentExecute ==
    /\ call = Idle
    /\ \E c \in Clients, dbOk \in BOOLEAN :
         /\ pending[c] # NoCall
         /\ pending[c].rpc = "CreateUser" => authSeq <= MaxId
         /\ LET rpc == pending[c].rpc
                req == pending[c].req
                r == server_Handle(rpc, req, dbOk)
            IN /\ auth' = r.auth
               /\ authSeq' = r.authSeq
               /\ call' = [rpc |-> rpc, req |-> req, dbOk |-> dbOk,
                           code |-> r.code, body |-> r.body, stmts |-> r.stmts,
                           sawRow |-> pending[c].sawRow]
               /\ given' = Given(rpc, req, r)
               /\ pending' = [pending EXCEPT ![c] = NoCall]
               /\ UNCHANGED <<clock, columns>>

NextConcurrent == ConcurrentValidate \/ ConcurrentExecute \/ Respond \/ Tick

SpecConcurrent == Init /\ [][NextConcurrent]_vars

\* C17: whatever the interleaving, an id whose row was deleted has no row
\* ever after: an UpdateUser of it, executed after the delete, changes
\* nothing, and a GetUserInfo of it returns Internal.  The number of rows
\* changes by +1 exactly on a successful CreateUser, by -1 exactly on a
\* DeleteUser that executes on an existing id, and by nothing else.
C17_DeletedNeverReappears ==
    [][LET d == Cardinality(DOMAIN auth') - Cardinality(DOMAIN auth)
           executes(rpc) == call.rpc = "none" /\ call'.rpc = rpc
       IN /\ Deleted \subseteq Deleted'
          /\ (executes("UpdateUser") /\ call'.req.Id \in Deleted)
                => auth' = auth
          /\ (executes("GetUserInfo") /\ call'.req.Id \in Deleted)
                => call'.code = Internal
          /\ d \in {-1, 0, 1}
          /\ d = 1 <=> (executes("CreateUser") /\ call'.code = OK)
          /\ d = -1 <=> (/\ executes("DeleteUser") /\ call'.code = OK
                         /\ call'.req.Id \in DOMAIN auth)]_vars

\* an UpdateUser that was validated while its row existed was executed,
\* successfully, after the row had been deleted, and another row is there
C17_Witness ==
    /\ call.rpc = "UpdateUser" /\ call.code = OK
    /\ "sawRow" \in DOMAIN call /\ call.sawRow
    /\ call.req.Id \in Deleted
    /\ auth # <<>>

=============================================================================
